---- MODULE Spec2Model ----
(***************************************************************************)
(* A model of ocr2pdf: the single-line text fit (justification by uniform  *)
(* character spacing), the font pick, the OCR quad-to-rect hook and the    *)
(* batch pipeline that overlays OCR lines onto page images.                *)
(*                                                                         *)
(* Reals are modelled as exact rationals [n, d] in lowest terms, so the    *)
(* arithmetic is that of the code without floating-point rounding.         *)
(* Text is a sequence of codepoints (ord(c) of each character).            *)
(***************************************************************************)
EXTENDS Integers, Sequences, FiniteSets, TLC

VARIABLES
    pc,            \* position of the modelled call / run
    args,          \* arguments of the fit call under way
    text_cont,     \* Shape.text_cont: the fragments appended to the shape
    page_contents, \* what Shape.commit has written to the page
    result,        \* <<>> while nothing was returned, else <<returned dict>>
    err,           \* "" or the message of the exception that propagated
    locals,        \* <<>> or <<the fit's local variables at its return>>
    pf,            \* pick_font / auto_detect_font: the walk over the text
    quad,          \* map_quad_to_rect: the four points and the Rect built
    batch,         \* ocr2pdf: the batch run
    page,          \* an OCR Page: its lines and the lazyproperty cache of rect
    geo            \* two geometry Rects and the results of intersect(s)

vars == <<pc, args, text_cont, page_contents, result, err, locals, pf, quad, batch,
          page, geo>>

(***************************************************************************)
(* Bounds of the model.                                                    *)
(***************************************************************************)
MaxLen == 3

(***************************************************************************)
(* Exact rational arithmetic.                                              *)
(***************************************************************************)
Abs(x) == IF x < 0 THEN -x ELSE x

RECURSIVE GCD(_, _)
GCD(a, b) == IF b = 0 THEN a ELSE GCD(b, a % b)

Rat(n, d) ==
    LET s == IF d < 0 THEN -1 ELSE 1
        g == GCD(Abs(n), Abs(d))
    IN  [n |-> (s * n) \div g, d |-> (s * d) \div g]

RInt(i) == [n |-> i, d |-> 1]
RAdd(a, b) == Rat(a.n * b.d + b.n * a.d, a.d * b.d)
RNeg(a) == [n |-> -a.n, d |-> a.d]
RSub(a, b) == RAdd(a, RNeg(b))
RMul(a, b) == Rat(a.n * b.n, a.d * b.d)
RDiv(a, b) == Rat(a.n * b.d, a.d * b.n)
RLe(a, b) == a.n * b.d <= b.n * a.d
RLt(a, b) == a.n * b.d < b.n * a.d
RAbs(a) == [n |-> Abs(a.n), d |-> a.d]

RECURSIVE SeqSum(_)
SeqSum(s) == IF s = <<>> THEN RInt(0) ELSE RAdd(Head(s), SeqSum(Tail(s)))

SetMax(S) == CHOOSE m \in S : \A x \in S : x <= m
SetMin(S) == CHOOSE m \in S : \A x \in S : m <= x

RECURSIVE SeqsUpTo(_, _)
SeqsUpTo(S, k) ==
    IF k = 0 THEN {<<>>}
    ELSE LET shorter == SeqsUpTo(S, k - 1)
         IN  shorter \cup {Append(s, x) : s \in {t \in shorter : Len(t) = k - 1}, x \in S}

(***************************************************************************)
(* Codepoints.                                                             *)
(***************************************************************************)
LF == 10
CR == 13
SP == 32
QUESTION == 63
\* ord() of the characters the input texts are made of
Ord == [A |-> 65, B |-> 66, Han |-> 20013]
CapA == Ord.A
CapB == Ord.B
Han == Ord.Han

Whitespace == {9, LF, 11, 12, CR, 28, 29, 30, 31, SP}

(***************************************************************************)
(* pypdf.Rect: the rect-like argument, its emptiness and its corners.      *)
(***************************************************************************)
FZ_MIN_INF_RECT == -2147483647 - 1
FZ_MAX_INF_RECT == 2147483520

MkRect(a, b, c, d) == [x0 |-> a, y0 |-> b, x1 |-> c, y1 |-> d]

is_empty(r) == r.x0 >= r.x1 \/ r.y0 >= r.y1

is_infinite(r) ==
    /\ r.x0 = FZ_MIN_INF_RECT /\ r.y0 = FZ_MIN_INF_RECT
    /\ r.x1 = FZ_MAX_INF_RECT /\ r.y1 = FZ_MAX_INF_RECT

width(r) == IF r.x1 - r.x0 > 0 THEN r.x1 - r.x0 ELSE 0
height(r) == IF r.y1 - r.y0 > 0 THEN r.y1 - r.y0 ELSE 0

Pt(x, y) == [x |-> x, y |-> y]
PtAdd(p, q) == [x |-> RAdd(p.x, q.x), y |-> RAdd(p.y, q.y)]
tl(r) == Pt(RInt(r.x0), RInt(r.y0))
tr(r) == Pt(RInt(r.x1), RInt(r.y0))
bl(r) == Pt(RInt(r.x0), RInt(r.y1))
br(r) == Pt(RInt(r.x1), RInt(r.y1))

(***************************************************************************)
(* Fonts as CheckFontInfo reports them: name, ordering, simple, ascender   *)
(* and the advance widths of the codepoints the font maps; every other     *)
(* codepoint below the requested limit gets the .notdef advance.           *)
(***************************************************************************)
Codepoints == {LF, CR, SP, QUESTION, CapA, CapB, Han}

Helv ==
    [name |-> "Helvetica", ordering |-> -1, simple |-> TRUE,
     ascender |-> Rat(1075, 1000), notdef |-> Rat(5, 10),
     widths |-> [c \in {SP, QUESTION, CapA, CapB} |->
                   IF c = SP THEN Rat(3, 10)
                   ELSE IF c = QUESTION THEN Rat(5, 10) ELSE Rat(6, 10)]]

ChinaS ==
    [name |-> "China-S", ordering |-> 0, simple |-> FALSE,
     ascender |-> Rat(88, 100), notdef |-> RInt(1),
     widths |-> [c \in {SP, CapA, CapB, Han} |-> RInt(1)]]

FileFont ==
    [name |-> "SimSun", ordering |-> -1, simple |-> FALSE,
     ascender |-> Rat(86, 100), notdef |-> RInt(1),
     widths |-> [c \in {SP, CapA, CapB, Han} |->
                   IF c = Han THEN RInt(1) ELSE Rat(5, 10)]]

\* a font file without CJK coverage: Han has no glyph, its width entry is
\* the one get_char_widths records for an unmapped codepoint
LatinFile ==
    [name |-> "DejaVuSans", ordering |-> -1, simple |-> FALSE,
     ascender |-> Rat(93, 100), notdef |-> RInt(0),
     widths |-> [c \in {SP, QUESTION, CapA, CapB} |->
                   IF c = SP THEN Rat(3, 10) ELSE Rat(7, 10)]]

Fonts == {Helv, ChinaS, FileFont, LatinFile}

\* doc.get_char_widths(xref, limit): one (glyph, width) entry per codepoint
\* below limit; only the width is kept
get_char_widths(font, limit) ==
    [c \in {k \in Codepoints : k < limit} |->
        IF c \in DOMAIN font.widths THEN font.widths[c] ELSE font.notdef]

(***************************************************************************)
(* shape_insert_single_line_text                                           *)
(***************************************************************************)
\* str(text).replace("\n", " ").replace("\r", " ")
ReplaceBreak(c) == IF c = LF \/ c = CR THEN SP ELSE c
ReplaceLineBreaks(text) == [i \in 1..Len(text) |-> ReplaceBreak(text[i])]

\* not text.strip()
StripIsEmpty_NoStrip(text) == Len(text) = 0
StripIsEmpty(text) == \A i \in 1..Len(text) : text[i] \in Whitespace

\* c if ord(c) < 256 else "?"
GuardChar(c) == IF c < 256 THEN c ELSE QUESTION
EncodingGuard(text, simple, maxcode) ==
    IF simple /\ maxcode > 255
    THEN [i \in 1..Len(text) |-> GuardChar(text[i])]
    ELSE text

\* rot = rotate; while rot < 0: rot += 360; rot = rot % 360
RECURSIVE WhileNegative(_)
WhileNegative(rot) == IF rot < 0 THEN WhileNegative(rot + 360) ELSE rot
NormalizeRot_Unreduced(rotate) == rotate
NormalizeRot(rotate) == WhileNegative(rotate) % 360

\* the nested pixlen(x, char_spacing)
pixlen_FixedAdvance(x, char_spacing, ordering, glyphs, fontsize) ==
    LET n == Len(x)
        spacing_width ==
            IF n > 1 THEN RMul(RMul(RInt(n - 1), char_spacing), fontsize)
            ELSE RInt(0)
    IN  RAdd(RMul(RInt(n), fontsize), spacing_width)

pixlen(x, char_spacing, ordering, glyphs, fontsize) ==
    LET n == Len(x)
        spacing_width ==
            IF n > 1 THEN RMul(RMul(RInt(n - 1), char_spacing), fontsize)
            ELSE RInt(0)
        base_width ==
            IF ordering < 0
            THEN RMul(SeqSum([i \in 1..n |-> glyphs[x[i]]]), fontsize)
            ELSE RMul(RInt(n), fontsize)
    IN  RAdd(base_width, spacing_width)

\* the rotation branch: insertion point, usable width and rotation matrix
cmp90 == "0 1 -1 0 0 0 cm"
cmm90 == "0 -1 1 0 0 0 cm"
cm180 == "-1 0 0 -1 0 0 cm"

RotationCase_SwappedMatrices(rot, rect, fontsize, ascender) ==
    LET fa == RMul(fontsize, ascender)
    IN  IF rot = 0 THEN
            [point |-> PtAdd(tl(rect), Pt(RInt(0), fa)),
             maxwidth |-> width(rect), cm |-> ""]
        ELSE IF rot = 90 THEN
            [point |-> PtAdd(bl(rect), Pt(fa, RInt(0))),
             maxwidth |-> height(rect), cm |-> cmm90]
        ELSE IF rot = 180 THEN
            [point |-> PtAdd(br(rect), Pt(RInt(0), RNeg(fa))),
             maxwidth |-> width(rect), cm |-> cm180]
        ELSE
            [point |-> PtAdd(tr(rect), Pt(RNeg(fa), RInt(0))),
             maxwidth |-> height(rect), cm |-> cmp90]

RotationCase_WidthOnly(rot, rect, fontsize, ascender) ==
    LET fa == RMul(fontsize, ascender)
    IN  IF rot = 0 THEN
            [point |-> PtAdd(tl(rect), Pt(RInt(0), fa)),
             maxwidth |-> width(rect), cm |-> ""]
        ELSE IF rot = 90 THEN
            [point |-> PtAdd(bl(rect), Pt(fa, RInt(0))),
             maxwidth |-> width(rect), cm |-> cmp90]
        ELSE IF rot = 180 THEN
            [point |-> PtAdd(br(rect), Pt(RInt(0), RNeg(fa))),
             maxwidth |-> width(rect), cm |-> cm180]
        ELSE
            [point |-> PtAdd(tr(rect), Pt(RNeg(fa), RInt(0))),
             maxwidth |-> width(rect), cm |-> cmm90]

RotationCase(rot, rect, fontsize, ascender) ==
    LET fa == RMul(fontsize, ascender)
    IN  IF rot = 0 THEN
            [point |-> PtAdd(tl(rect), Pt(RInt(0), fa)),
             maxwidth |-> width(rect), cm |-> ""]
        ELSE IF rot = 90 THEN
            [point |-> PtAdd(bl(rect), Pt(fa, RInt(0))),
             maxwidth |-> height(rect), cm |-> cmp90]
        ELSE IF rot = 180 THEN
            [point |-> PtAdd(br(rect), Pt(RInt(0), RNeg(fa))),
             maxwidth |-> width(rect), cm |-> cm180]
        ELSE
            [point |-> PtAdd(tr(rect), Pt(RNeg(fa), RInt(0))),
             maxwidth |-> height(rect), cm |-> cmm90]

\* char_spacing = 0.0; if len(text) > 1: char_spacing = dw / (len(text) - 1)
SolveSpacing_PerChar(n, maxwidth, base_text_width) ==
    IF n > 1
    THEN RDiv(RSub(RInt(maxwidth), base_text_width), RInt(n))
    ELSE RInt(0)

SolveSpacing(n, maxwidth, base_text_width) ==
    IF n > 1
    THEN RDiv(RSub(RInt(maxwidth), base_text_width), RInt(n - 1))
    ELSE RInt(0)

\* abs(char_spacing) > 1e-6, that is |n| * 10^6 > d
SignificantSpacing(cs) == Abs(cs.n) > cs.d \div 1000000

\* position in PDF coordinates (shape.x = shape.y = 0)
PdfPosition(rot, point, pageheight) ==
    LET h == RInt(pageheight)
    IN  IF rot = 90 THEN [left |-> RSub(h, point.y), top |-> RNeg(point.x)]
        ELSE IF rot = 270 THEN [left |-> RAdd(RNeg(h), point.y), top |-> point.x]
        ELSE IF rot = 180 THEN [left |-> RNeg(point.x), top |-> RAdd(RNeg(h), point.y)]
        ELSE [left |-> point.x, top |-> RSub(h, point.y)]

PageHeight == 200

\* rect.is_empty or rect.is_infinite
RectCheck_InfiniteOnly(rect) == is_infinite(rect)
RectCheck(rect) == is_empty(rect) \/ is_infinite(rect)

GeometryError == "text box must be finite and not empty"
RotationError == "rotate must be multiple of 90"

Outcome(e, res, cont, loc) ==
    [err |-> e, result |-> res, text_cont |-> cont, locals |-> loc]

\* the whole method, applied to a shape whose text content is cont
shape_insert_single_line_text(cont, a) ==
    LET rect == a.rect
        text1 == ReplaceLineBreaks(a.text)
    IN
    IF RectCheck(rect) THEN
        Outcome(GeometryError, <<>>, cont, <<>>)
    ELSE IF StripIsEmpty(text1) THEN
        Outcome("", <<[success |-> FALSE, char_spacing |-> RInt(0),
                       text_width |-> RInt(0), rect_width |-> width(rect)]>>,
                cont, <<>>)
    ELSE IF a.rotate % 90 # 0 THEN
        Outcome(RotationError, <<>>, cont, <<>>)
    ELSE
        LET rot == NormalizeRot(a.rotate)
            font == a.font
            fontsize == a.fontsize
            maxcode == SetMax({text1[i] : i \in 1..Len(text1)})
            text == EncodingGuard(text1, font.simple, maxcode)
            glyphs == get_char_widths(font, maxcode + 1)
            rc == RotationCase(rot, rect, fontsize, font.ascender)
            maxwidth == rc.maxwidth
            base_text_width == pixlen(text, RInt(0), font.ordering, glyphs, fontsize)
            char_spacing == SolveSpacing(Len(text), maxwidth, base_text_width)
            actual_text_width == pixlen(text, char_spacing, font.ordering, glyphs, fontsize)
            pos == PdfPosition(rot, rc.point, PageHeight)
            nres == [cm |-> rc.cm, left |-> pos.left, top |-> pos.top,
                     fname |-> font.name, fontsize |-> fontsize,
                     Tc |-> IF SignificantSpacing(char_spacing)
                            THEN <<char_spacing>> ELSE <<>>,
                     TJ |-> text]
        IN  Outcome("",
                    <<[success |-> TRUE, char_spacing |-> char_spacing,
                       text_width |-> actual_text_width,
                       rect_width |-> maxwidth,
                       text_fits |-> RLe(actual_text_width, RInt(maxwidth))]>>,
                    Append(cont, nres),
                    <<[text |-> text, rot |-> rot, point |-> rc.point,
                       cm |-> rc.cm, base_text_width |-> base_text_width]>>)

\* Shape.commit: the shape's text content goes to the page and is reset
commit(contents, cont) ==
    [page_contents |-> IF cont = <<>> THEN contents ELSE Append(contents, cont),
     text_cont |-> <<>>]

(***************************************************************************)
(* Inputs of the fit.                                                      *)
(***************************************************************************)
Alphabet == {CapA, SP, LF, CR, Han}
ScenarioA == <<CapA, CapB>>
ScenarioC == <<CapA, CapA, CapA, CapA, CapA>>
Texts == SeqsUpTo(Alphabet, MaxLen) \cup {ScenarioA, ScenarioC}

InfiniteRect ==
    MkRect(FZ_MIN_INF_RECT, FZ_MIN_INF_RECT, FZ_MAX_INF_RECT, FZ_MAX_INF_RECT)

Rects ==
    {MkRect(0, 0, 100, 20), MkRect(0, 0, 40, 12), MkRect(0, 5, 100, 5),
     MkRect(100, 0, 0, 20), InfiniteRect}

FontSizes == {RInt(10), RInt(20)}
Rotations == {-90, 0, 45, 90, 180, 270, 360, 450}

FitArgs ==
    [rect : Rects, text : Texts, font : Fonts, fontsize : FontSizes,
     rotate : Rotations]

NoArgs ==
    [rect |-> MkRect(0, 0, 0, 0), text |-> <<>>, font |-> Helv,
     fontsize |-> RInt(0), rotate |-> 0]

IdlePf == [pc |-> "idle"]
IdleQuad == [pc |-> "idle"]
IdleBatch == [pc |-> "idle"]
IdlePage == [pc |-> "idle"]
IdleGeo == [pc |-> "idle"]

(***************************************************************************)
(* The fit as a state machine: one call per behaviour, either of the shape *)
(* method directly or of the page-level wrapper.                           *)
(***************************************************************************)
Init ==
    /\ pc = "start"
    /\ args \in FitArgs
    /\ text_cont = <<>>
    /\ page_contents = <<>>
    /\ result = <<>>
    /\ err = ""
    /\ locals = <<>>
    /\ pf = IdlePf
    /\ quad = IdleQuad
    /\ batch = IdleBatch
    /\ page = IdlePage
    /\ geo = IdleGeo

\* Shape.insert_single_line_text called on a shape
ShapeInsertSingleLineText ==
    /\ pc = "start"
    /\ LET o == shape_insert_single_line_text(text_cont, args)
       IN  /\ text_cont' = o.text_cont
           /\ result' = o.result
           /\ err' = o.err
           /\ locals' = o.locals
    /\ pc' = "shape_done"
    /\ UNCHANGED <<page, geo, args, page_contents, pf, quad, batch>>

\* pypdf.utils.insert_single_line_text: new Shape, fit, commit on success
InsertSingleLineText ==
    /\ pc = "start"
    /\ LET o == shape_insert_single_line_text(<<>>, args)
           c == IF o.err = "" /\ o.result[1].success
                THEN commit(page_contents, o.text_cont)
                ELSE [page_contents |-> page_contents, text_cont |-> o.text_cont]
       IN  /\ text_cont' = c.text_cont
           /\ page_contents' = c.page_contents
           /\ result' = o.result
           /\ err' = o.err
           /\ locals' = o.locals
    /\ pc' = "page_done"
    /\ UNCHANGED <<page, geo, args, pf, quad, batch>>

Next == ShapeInsertSingleLineText \/ InsertSingleLineText

Spec == Init /\ [][Next]_vars

(***************************************************************************)
(* Properties of the fit.                                                  *)
(***************************************************************************)
Done == pc \in {"shape_done", "page_done"}
Returned == Done /\ err = ""
Success == Returned /\ result[1].success

\* the character count of the text (line breaks count as one space each)
NChars == Len(args.text)
Blank == \A i \in 1..Len(args.text) : args.text[i] \in Whitespace

RectW == args.rect.x1 - args.rect.x0
RectH == args.rect.y1 - args.rect.y0
\* the rect extent the rotation selects
UsableSpan == IF args.rotate % 180 = 0 THEN RectW ELSE RectH
Infinite == args.rect = InfiniteRect
Degenerate == Infinite \/ RectW <= 0 \/ RectH <= 0 \/ RectW * RectH <= 0

\* C1: justification exactness -- for every successful fit of a text of
\* n > 1 characters, base_width + (n-1) * char_spacing equals the usable
\* span chosen by the rotation, for every rotation and both font modes.
C1_JustificationExact ==
    (Success /\ NChars > 1) =>
        RAdd(locals[1].base_text_width,
             RMul(RInt(NChars - 1), result[1].char_spacing)) = RInt(UsableSpan)

C1_Witness ==
    /\ Success /\ NChars > 1
    /\ args.font.ordering >= 0 /\ args.rotate = 270
    /\ RLt(result[1].char_spacing, RInt(0))

\* C2: the rendered width reported by a successful fit (text_width) equals
\* base_width + (n-1) * char_spacing, the spacing not multiplied by fontsize.
C2_RenderedWidth ==
    Success =>
        result[1].text_width =
            RAdd(locals[1].base_text_width,
                 RMul(RInt(IF NChars > 1 THEN NChars - 1 ELSE 0),
                      result[1].char_spacing))

\* C3: the fits flag of a successful fit is true for every text of n > 1
\* characters, whether the solved spacing is positive or negative.
C3_AlwaysFits ==
    (Success /\ NChars > 1) => result[1].text_fits

\* C4: with a finite non-empty rect, blank text (empty, or only whitespace
\* and line breaks) returns success=false and char_spacing=0 without raising,
\* appends nothing to the shape and the wrapper commits nothing.
C4_BlankTextNoOp ==
    (Done /\ ~Degenerate /\ Blank) =>
        /\ err = ""
        /\ result # <<>>
        /\ result[1].success = FALSE
        /\ result[1].char_spacing = RInt(0)
        /\ text_cont = <<>>
        /\ page_contents = <<>>

C4_Witness ==
    /\ pc = "page_done" /\ ~Degenerate /\ Blank
    /\ LF \in {args.text[i] : i \in 1..Len(args.text)}
    /\ result # <<>> /\ ~result[1].success
    /\ page_contents = <<>>

\* C5: a rect of zero or negative area, or an infinite rect, makes the fit
\* fail with the geometry error for every text and rotation, before any
\* spacing is computed: nothing is returned, nothing is appended.
C5_DegenerateRectRaises ==
    (Done /\ Degenerate) =>
        /\ err = GeometryError
        /\ result = <<>>
        /\ locals = <<>>
        /\ text_cont = <<>>
        /\ page_contents = <<>>

C5_Witness ==
    /\ Done /\ Blank /\ args.rotate = 45
    /\ ~Infinite /\ RectW < 0 /\ RectH > 0
    /\ err = GeometryError

\* C6: for non-blank text and a valid rect, a rotation that is not a
\* multiple of 90 fails with the rotation error and appends nothing; a
\* multiple of 90 (negative or >= 360 included) behaves exactly like the
\* rotation reduced modulo 360.
Reduced == shape_insert_single_line_text(<<>>, [args EXCEPT !.rotate = args.rotate % 360])

C6_Rotation ==
    (Done /\ ~Degenerate /\ ~Blank) =>
        IF args.rotate % 90 # 0
        THEN /\ err = RotationError
             /\ result = <<>>
             /\ text_cont = <<>>
             /\ page_contents = <<>>
        ELSE /\ args.rotate % 360 \in {0, 90, 180, 270}
             /\ err = Reduced.err
             /\ result = Reduced.result
             /\ locals = Reduced.locals
             /\ pc = "shape_done" => text_cont = Reduced.text_cont
             /\ pc = "page_done" => page_contents = <<Reduced.text_cont>>

C6_Witness ==
    /\ pc = "page_done" /\ ~Degenerate /\ ~Blank
    /\ args.rotate = 450
    /\ Success
    /\ page_contents # <<>>
    /\ page_contents[1][1].cm = cmp90

\* C7: the usable span a successful fit reports (rect_width) is the rect
\* width for rotation 0 or 180 and the rect height for rotation 90 or 270.
C7_AxisSelection ==
    Success =>
        /\ args.rotate % 360 \in {0, 180} => result[1].rect_width = RectW
        /\ args.rotate % 360 \in {90, 270} => result[1].rect_width = RectH

C7_Witness ==
    /\ Success /\ args.rotate = 90
    /\ RectW # RectH
    /\ result[1].rect_width = RectH

\* fontsize * ascender, and the corners of the rect as exact numbers
FA == RMul(args.fontsize, args.font.ascender)
X0 == RInt(args.rect.x0)
Y0 == RInt(args.rect.y0)
X1 == RInt(args.rect.x1)
Y1 == RInt(args.rect.y1)

\* C13: anchor point and rotation matrix of a successful fit follow the
\* table: 0 -> top-left + (0, +fa), no matrix; 90 -> bottom-left + (+fa, 0),
\* counter-clockwise; 180 -> bottom-right + (0, -fa), flip; 270 -> top-right
\* + (-fa, 0), clockwise; the normalized rotation is one of the four.
C13_AnchorTable ==
    Success =>
        LET r == args.rotate % 360
            pt == locals[1].point
            m == locals[1].cm
        IN  /\ r \in {0, 90, 180, 270}
            /\ locals[1].rot = r
            /\ r = 0 => pt = [x |-> X0, y |-> RAdd(Y0, FA)] /\ m = ""
            /\ r = 90 => pt = [x |-> RAdd(X0, FA), y |-> Y1] /\ m = "0 1 -1 0 0 0 cm"
            /\ r = 180 => pt = [x |-> X1, y |-> RSub(Y1, FA)] /\ m = "-1 0 0 -1 0 0 cm"
            /\ r = 270 => pt = [x |-> RSub(X1, FA), y |-> Y0] /\ m = "0 -1 1 0 0 0 cm"
            /\ text_cont # <<>> => text_cont[Len(text_cont)].cm = m
            /\ page_contents # <<>> => page_contents[1][1].cm = m

C13_Witness ==
    /\ Success /\ args.rotate = -90
    /\ locals[1].cm = "0 -1 1 0 0 0 cm"
    /\ locals[1].point.x = RSub(X1, FA)

\* the character the width is taken for: line breaks became spaces, and a
\* single-byte font replaces every codepoint above 255 by "?"
WidthChar(c) ==
    IF c \in {LF, CR} THEN SP
    ELSE IF args.font.simple /\ c > 255 THEN QUESTION
    ELSE c
\* its width: the font's glyph width, or the fallback when it has no entry
CharWidth(c) ==
    IF WidthChar(c) \in DOMAIN args.font.widths
    THEN args.font.widths[WidthChar(c)]
    ELSE args.font.notdef
Unmapped == {i \in 1..Len(args.text) : WidthChar(args.text[i]) \notin DOMAIN args.font.widths}

\* C14: the base width is glyph_count * fontsize for a composite font and
\* the sum of glyph_width[c] * fontsize for a simple one, a codepoint
\* without glyph-width entry contributing a fallback width, not a failure.
C14_BaseWidth ==
    (Done /\ ~Degenerate /\ ~Blank /\ args.rotate % 90 = 0) =>
        /\ Success
        /\ locals[1].base_text_width =
              IF args.font.ordering >= 0
              THEN RMul(RInt(NChars), args.fontsize)
              ELSE SeqSum([i \in 1..NChars |-> RMul(CharWidth(args.text[i]), args.fontsize)])

C14_Witness ==
    /\ Success
    /\ args.font.ordering < 0
    /\ Unmapped # {} /\ Unmapped # 1..NChars
    /\ RLt(RInt(0), locals[1].base_text_width)

\* C16: the result for blank text has rendered width 0, fits = false and an
\* available width equal to the rect's span along the rotation's axis.
C16_BlankResultFields ==
    (Returned /\ Blank /\ args.rotate % 90 = 0) =>
        /\ result[1].text_width = RInt(0)
        /\ result[1].rect_width = UsableSpan
        /\ "text_fits" \in DOMAIN result[1]
        /\ result[1].text_fits = FALSE

(***************************************************************************)
(* pick_font and auto_detect_font.  The system font catalog               *)
(* (fz_encode_character_with_system_font) is a black box: each query       *)
(* answers with no match or with one of the catalog's fonts.               *)
(***************************************************************************)
NotoSans ==
    [name |-> <<"N", "o", "t", "o", " ", "S", "a", "n", "s">>,
     path |-> "/usr/share/fonts/NotoSans-Regular.ttf"]
SimSun ==
    [name |-> <<"S", "i", "m", "S", "u", "n">>,
     path |-> "/usr/share/fonts/simsun.ttc"]
CatalogFonts == {NotoSans, SimSun}

\* a query result: <<>> is None, <<f>> is the tuple (f, glyph)
CatalogResults == {<<>>} \cup {<<f>> : f \in CatalogFonts}

\* if result is None: continue;  font, _ = result
PickUpdate_DropOnMiss(font, res) == res
PickUpdate_KeepFirst(font, res) == IF font = <<>> THEN res ELSE font
PickUpdate(font, res) == IF res = <<>> THEN font ELSE res

\* name.replace(" ", "_")
EscapeChar(c) == IF c = " " THEN "_" ELSE c
escapt_font_name(name) == [i \in 1..Len(name) |-> EscapeChar(name[i])]

helv == <<"h", "e", "l", "v">>

\* the body of auto_detect_font after pick_font returned font
auto_detect_font(font) ==
    IF font = <<>> THEN [name |-> helv, file |-> <<>>]
    ELSE [name |-> escapt_font_name(font[1].name), file |-> <<font[1].path>>]

IdleFit ==
    /\ pc = "idle"
    /\ args = NoArgs
    /\ text_cont = <<>>
    /\ page_contents = <<>>
    /\ result = <<>>
    /\ err = ""
    /\ locals = <<>>

FitVars == <<pc, args, text_cont, page_contents, result, err, locals>>

InitFont ==
    /\ IdleFit
    /\ pf \in {[pc |-> "walk", text |-> t, i |-> 0, font |-> <<>>,
                log |-> <<>>, ret |-> <<>>] : t \in SeqsUpTo(Alphabet, MaxLen)}
    /\ quad = IdleQuad
    /\ batch = IdleBatch
    /\ page = IdlePage
    /\ geo = IdleGeo

\* one iteration of "for c in text" in pick_font
PickFontStep ==
    /\ pf.pc = "walk"
    /\ pf.i < Len(pf.text)
    /\ \E res \in CatalogResults :
          pf' = [pf EXCEPT
                   !.i = pf.i + 1,
                   !.font = PickUpdate(pf.font, res),
                   !.log = Append(pf.log,
                                  [hint |-> pf.font, cp |-> pf.text[pf.i + 1],
                                   result |-> res])]
    /\ UNCHANGED <<page, geo, FitVars, quad, batch>>

\* the loop is exhausted: pick_font returns, auto_detect_font maps the font
AutoDetectFontReturn ==
    /\ pf.pc = "walk"
    /\ pf.i = Len(pf.text)
    /\ pf' = [pf EXCEPT !.pc = "done", !.ret = <<auto_detect_font(pf.font)>>]
    /\ UNCHANGED <<page, geo, FitVars, quad, batch>>

NextFont == PickFontStep \/ AutoDetectFontReturn

SpecFont == InitFont /\ [][NextFont]_vars

\* the positions of the queries the catalog answered with a match
Matched == {k \in 1..Len(pf.log) : pf.log[k].result # <<>>}
LastMatch == pf.log[SetMax(Matched)].result[1]
Underscored(name) == [k \in 1..Len(name) |-> IF name[k] = " " THEN "_" ELSE name[k]]

\* C8: the font returned is the one the catalog matched for the last
\* codepoint that had a match (name with spaces as underscores, and its
\* file); when no codepoint matched, it is "helv" with no font file.
C8_LastMatchWins ==
    pf.pc = "done" =>
        /\ Len(pf.log) = Len(pf.text)
        /\ IF Matched = {}
           THEN pf.ret[1] = [name |-> <<"h", "e", "l", "v">>, file |-> <<>>]
           ELSE pf.ret[1] = [name |-> Underscored(LastMatch.name),
                             file |-> <<LastMatch.path>>]

\* only the last character of a longer run has coverage
C8_Witness ==
    /\ pf.pc = "done"
    /\ Len(pf.text) = 3
    /\ Matched = {3}
    /\ pf.ret[1].name = <<"N", "o", "t", "o", "_", "S", "a", "n", "s">>

\* the matches among the queries before query k
MatchedBefore(k) == {j \in 1..(k - 1) : pf.log[j].result # <<>>}

\* C15: the catalog is queried once per codepoint, in text order; the first
\* query carries no hint, and each later query carries the font of the most
\* recent earlier match -- a miss leaves the hint unchanged.
C15_HintContinuity ==
    pf.pc \in {"walk", "done"} =>
        /\ Len(pf.log) = pf.i
        /\ pf.pc = "done" => Len(pf.log) = Len(pf.text)
        /\ \A k \in 1..Len(pf.log) :
              /\ pf.log[k].cp = pf.text[k]
              /\ pf.log[k].hint =
                    IF MatchedBefore(k) = {} THEN <<>>
                    ELSE pf.log[SetMax(MatchedBefore(k))].result

\* a match, then a miss, then a query that still carries the first match
\* and is answered with another font
C15_Witness ==
    /\ pf.pc = "done"
    /\ Len(pf.log) = 3
    /\ pf.log[1].hint = <<>>
    /\ pf.log[1].result = <<NotoSans>>
    /\ pf.log[2].result = <<>>
    /\ pf.log[3].hint = <<NotoSans>>
    /\ pf.log[3].result = <<SimSun>>

(***************************************************************************)
(* Page.loads: the structure hook that turns a four-point polygon into a   *)
(* Rect.                                                                   *)
(***************************************************************************)
MaxCoord == 2

Min4(a, b, c, d) == SetMin({a, b, c, d})
Max4(a, b, c, d) == SetMax({a, b, c, d})

map_quad_to_rect_Corners(points) ==
    LET ul == points[1]
        lr == points[3]
    IN  MkRect(ul.x, ul.y, lr.x, lr.y)

map_quad_to_rect(points) ==
    LET ul == points[1]
        ur == points[2]
        lr == points[3]
        ll == points[4]
    IN  MkRect(Min4(ul.x, ur.x, lr.x, ll.x), Min4(ul.y, ur.y, lr.y, ll.y),
               Max4(ul.x, ur.x, lr.x, ll.x), Max4(ul.y, ur.y, lr.y, ll.y))

Coords == 0..MaxCoord
QuadPoints == [x : Coords, y : Coords]

InitQuad ==
    /\ IdleFit
    /\ pf = IdlePf
    /\ quad \in {[pc |-> "start", points |-> <<a, b, c, d>>, rect |-> <<>>] :
                    a \in QuadPoints, b \in QuadPoints,
                    c \in QuadPoints, d \in QuadPoints}
    /\ batch = IdleBatch
    /\ page = IdlePage
    /\ geo = IdleGeo

\* the converter structures one boundingPolygon
StructureRect ==
    /\ quad.pc = "start"
    /\ quad' = [quad EXCEPT !.pc = "done",
                            !.rect = <<map_quad_to_rect(quad.points)>>]
    /\ UNCHANGED <<page, geo, FitVars, pf, batch>>

NextQuad == StructureRect

SpecQuad == InitQuad /\ [][NextQuad]_vars

Xs == {quad.points[k].x : k \in 1..4}
Ys == {quad.points[k].y : k \in 1..4}
Perms4 == {f \in [1..4 -> 1..4] : \A i, j \in 1..4 : i # j => f[i] # f[j]}

\* C9: the Rect built from four points is (min xs, min ys, max xs, max ys),
\* is the same for every permutation of the points, and has x0 <= x1 and
\* y0 <= y1.
C9_QuadToRect ==
    quad.pc = "done" =>
        LET r == quad.rect[1]
        IN  /\ \A x \in Xs : r.x0 <= x /\ x <= r.x1
            /\ \A y \in Ys : r.y0 <= y /\ y <= r.y1
            /\ r.x0 \in Xs /\ r.x1 \in Xs /\ r.y0 \in Ys /\ r.y1 \in Ys
            /\ r.x0 <= r.x1 /\ r.y0 <= r.y1
            /\ \A f \in Perms4 :
                  map_quad_to_rect([k \in 1..4 |-> quad.points[f[k]]]) = r

\* a skewed quad whose first and third points are not the extreme corners
C9_Witness ==
    /\ quad.pc = "done"
    /\ quad.points = <<[x |-> 1, y |-> 0], [x |-> 2, y |-> 1],
                       [x |-> 1, y |-> 2], [x |-> 0, y |-> 1]>>
    /\ quad.rect[1] = MkRect(0, 0, 2, 2)

(***************************************************************************)
(* ocr2pdf: the batch run over the input images.  Whether an image has a   *)
(* sibling .ms.json file, and the pages that file holds, are read when     *)
(* the loop reaches the image.  The font that auto_detect_font and         *)
(* insert_font resolve for a line is a function of the line's text and of  *)
(* the system catalog; the lines that have words all carry the same text   *)
(* here, so one font is drawn per run.                                     *)
(***************************************************************************)
MaxImages == 2
MaxPages == 2
MaxLines == 2

GoodLine == [words |-> <<<<CapA>>, <<CapA, CapB>>>>, rect |-> MkRect(0, 0, 100, 20)]
DegenerateLine == [words |-> <<<<CapA>>, <<CapA, CapB>>>>, rect |-> MkRect(0, 0, 0, 20)]
NoWordsLine == [words |-> <<>>, rect |-> MkRect(0, 30, 40, 42)]
OcrLines == {GoodLine, DegenerateLine, NoWordsLine}
OcrPages == {[lines |-> ls] : ls \in SeqsUpTo(OcrLines, MaxLines)}
OcrFiles == SeqsUpTo(OcrPages, MaxPages)

\* text = line.words[0].text; each further word is appended, after a space
\* when it has more than one character
RECURSIVE AppendWords(_, _)
AppendWords(text, words) ==
    IF words = <<>> THEN text
    ELSE LET word == Head(words)
         IN  AppendWords((IF Len(word) > 1 THEN Append(text, SP) ELSE text) \o word,
                         Tail(words))
LineText(words) == AppendWords(Head(words), Tail(words))

\* fontsize = line.rect.h / 1.32
LineFontSize(rect) == Rat((rect.y1 - rect.y0) * 100, 132)

IndexError == "list index out of range"

\* where the nested loops stand after line l of page p was handled
LoopPosition(pages, p, l) ==
    IF p > 0 /\ l < Len(pages[p].lines) THEN "lines"
    ELSE IF p < Len(pages) THEN "pages"
    ELSE "images"

InitBatch ==
    /\ IdleFit
    /\ pf = IdlePf
    /\ quad = IdleQuad
    /\ page = IdlePage
    /\ geo = IdleGeo
    /\ batch \in {[pc |-> "images", n |-> k, i |-> 0, ocr_pages |-> <<>>,
                   p |-> 0, l |-> 0, doc |-> <<>>, saved |-> FALSE,
                   ret |-> <<>>, err |-> "", fitted |-> 0, failed |-> 0,
                   font |-> f, seen |-> <<>>, exit |-> <<>>] :
                     k \in 0..MaxImages, f \in Fonts}

\* the image has no sibling OCR file: continue
SkipImage ==
    /\ batch.pc = "images"
    /\ batch.i < batch.n
    /\ batch' = [batch EXCEPT !.i = batch.i + 1, !.ocr_pages = <<>>,
                              !.p = 0, !.l = 0,
                              !.seen = Append(batch.seen, [ocr |-> FALSE, npages |-> 0])]
    /\ UNCHANGED <<page, geo, FitVars, pf, quad>>

\* the OCR file exists: OCRPage.load, dump, image size
LoadImage ==
    /\ batch.pc = "images"
    /\ batch.i < batch.n
    /\ \E pages \in OcrFiles :
          batch' = [batch EXCEPT !.i = batch.i + 1, !.ocr_pages = pages,
                                 !.p = 0, !.l = 0,
                                 !.seen = Append(batch.seen,
                                                 [ocr |-> TRUE, npages |-> Len(pages)]),
                                 !.pc = LoopPosition(pages, 0, 0)]
    /\ UNCHANGED <<page, geo, FitVars, pf, quad>>

\* for editor_page in editor_pages: page = new_page(doc, pno=-1, ...)
NewPage ==
    /\ batch.pc = "pages"
    /\ batch.p < Len(batch.ocr_pages)
    /\ batch' = [batch EXCEPT
                   !.p = batch.p + 1, !.l = 0, !.fitted = 0,
                   !.doc = Append(batch.doc,
                                  [img |-> batch.i, pno |-> batch.p + 1,
                                   contents |-> <<>>]),
                   !.pc = LoopPosition(batch.ocr_pages, batch.p + 1, 0)]
    /\ UNCHANGED <<page, geo, FitVars, pf, quad>>

\* the body of "for line in editor_page.lines": build the text, detect the
\* font, insert it into the page and fit the line; nothing catches what
\* the body raises
InsertLine ==
    /\ batch.pc = "lines"
    /\ LET line == batch.ocr_pages[batch.p].lines[batch.l + 1]
           cur == Len(batch.doc)
       IN  IF line.words = <<>> THEN
               batch' = [batch EXCEPT !.pc = "raised", !.err = IndexError,
                                      !.l = batch.l + 1,
                                      !.failed = batch.failed + 1]
           ELSE
                 LET a == [rect |-> line.rect, text |-> LineText(line.words),
                           font |-> batch.font, fontsize |-> LineFontSize(line.rect),
                           rotate |-> 0]
                     o == shape_insert_single_line_text(<<>>, a)
                 IN  IF o.err # "" THEN
                         batch' = [batch EXCEPT !.pc = "raised", !.err = o.err,
                                                !.l = batch.l + 1,
                                                !.fitted = batch.fitted + 1,
                                                !.failed = batch.failed + 1]
                     ELSE
                         batch' = [batch EXCEPT
                            !.l = batch.l + 1,
                            !.fitted = batch.fitted + 1,
                            !.doc[cur].contents =
                                IF o.result[1].success
                                THEN commit(batch.doc[cur].contents, o.text_cont).page_contents
                                ELSE batch.doc[cur].contents,
                            !.pc = LoopPosition(batch.ocr_pages, batch.p, batch.l + 1)]
    /\ UNCHANGED <<page, geo, FitVars, pf, quad>>

\* after the loop: return -1 without saving when the document has no page,
\* else doc.save and return 0
Finish ==
    /\ batch.pc = "images"
    /\ batch.i = batch.n
    /\ batch' = IF Len(batch.doc) = 0
                THEN [batch EXCEPT !.pc = "returned", !.ret = <<-1>>]
                ELSE [batch EXCEPT !.pc = "returned", !.ret = <<0>>,
                                   !.saved = TRUE]
    /\ UNCHANGED <<page, geo, FitVars, pf, quad>>

\* main: the value ocr2pdf returns is dropped, so the process ends with
\* exit code 0 whenever ocr2pdf returns, and with 1 on an uncaught exception
Main ==
    /\ batch.pc \in {"returned", "raised"}
    /\ batch' = [batch EXCEPT
                   !.pc = "exited",
                   !.exit = IF batch.pc = "raised" THEN <<1>> ELSE <<0>>]
    /\ UNCHANGED <<page, geo, FitVars, pf, quad>>

NextBatch == SkipImage \/ LoadImage \/ NewPage \/ InsertLine \/ Finish \/ Main

SpecBatch == InitBatch /\ [][NextBatch]_vars

BatchEnded == batch.pc \in {"returned", "raised"}

\* C10: a line whose fit fails is skipped -- every other line of its page is
\* still passed to the fit, the remaining pages and images are still
\* processed and the document is still saved.
C10_FailingLineSkipped ==
    (BatchEnded /\ batch.failed > 0) =>
        /\ batch.pc = "returned"
        /\ batch.i = batch.n
        /\ batch.p = Len(batch.ocr_pages)
        /\ batch.l = Len(batch.ocr_pages[batch.p].lines)
        /\ batch.saved

\* C11: a CLI run ends with exit code 0 when at least one page was produced
\* and the document was saved, and with a non-zero exit code (-1) when no
\* page was produced, in which case no document is saved.
C11_ExitCode ==
    batch.pc = "exited" =>
        /\ (Len(batch.doc) > 0 /\ batch.saved) => batch.exit = <<0>>
        /\ Len(batch.doc) = 0 => (batch.exit # <<0>> /\ ~batch.saved)

\* the (image, page number) keys the document must hold: for each image
\* visited so far, in list order, one key per OCR page created
RECURSIVE ExpectedKeys(_)
ExpectedKeys(j) ==
    IF j = 0 THEN <<>>
    ELSE ExpectedKeys(j - 1) \o
         [q \in 1..(IF j < batch.i THEN batch.seen[j].npages ELSE batch.p) |-> <<j, q>>]
DocKeys == [k \in 1..Len(batch.doc) |-> <<batch.doc[k].img, batch.doc[k].pno>>]

\* C12: the run visits every input image in list order; an image without
\* OCR file adds no page and does not end the run, and each processed image
\* adds one page per OCR page, in order.
C12_EveryImageVisited ==
    BatchEnded =>
        /\ batch.i = batch.n
        /\ Len(batch.seen) = batch.n
        /\ \A j \in 1..Len(batch.seen) :
              Cardinality({k \in 1..Len(batch.doc) : batch.doc[k].img = j})
                  = batch.seen[j].npages
        /\ DocKeys = ExpectedKeys(batch.i)

(***************************************************************************)
(* Page.rect: a lazyproperty.  The first access computes the bounding rect *)
(* of the lines and stores it as _cached_rect on the instance; the Page    *)
(* dataclass is not frozen, so its lines can be assigned between accesses. *)
(***************************************************************************)
PageLineRects == {MkRect(0, 0, 2, 1), MkRect(1, 1, 3, 2), MkRect(0, 2, 1, 3)}
PageLines == SeqsUpTo(PageLineRects, MaxLines)

MinEmptyError == "min() arg is an empty sequence"

\* the body of Page.rect; <<>> stands for the ValueError of min() of nothing
Page_rect(lines) ==
    IF lines = <<>> THEN <<>>
    ELSE <<MkRect(SetMin({lines[k].x0 : k \in 1..Len(lines)}),
                  SetMin({lines[k].y0 : k \in 1..Len(lines)}),
                  SetMax({lines[k].x1 : k \in 1..Len(lines)}),
                  SetMax({lines[k].y1 : k \in 1..Len(lines)}))>>

\* lazyproperty.__get__ on an instance whose _cached_rect is cached (<<>> when
\* the attribute is absent)
lazy_get_Recompute(cached, lines) ==
    LET value == Page_rect(lines)
    IN  IF value = <<>>
        THEN [cached |-> cached, ret |-> <<>>, err |-> MinEmptyError, computed |-> TRUE]
        ELSE [cached |-> value, ret |-> value, err |-> "", computed |-> TRUE]

lazy_get(cached, lines) ==
    IF cached = <<>> THEN
        LET value == Page_rect(lines)
        IN  IF value = <<>>
            THEN [cached |-> cached, ret |-> <<>>, err |-> MinEmptyError, computed |-> TRUE]
            ELSE [cached |-> value, ret |-> value, err |-> "", computed |-> TRUE]
    ELSE [cached |-> cached, ret |-> cached, err |-> "", computed |-> FALSE]

InitPage ==
    /\ IdleFit
    /\ pf = IdlePf
    /\ quad = IdleQuad
    /\ batch = IdleBatch
    /\ geo = IdleGeo
    /\ page \in {[pc |-> "new", lines |-> ls, cached |-> <<>>, ret |-> <<>>,
                  err |-> "", computed |-> FALSE] : ls \in PageLines}

\* an access page.rect
GetRect ==
    /\ page.pc \in {"new", "accessed", "assigned"}
    /\ LET g == lazy_get(page.cached, page.lines)
       IN  page' = [page EXCEPT !.pc = "accessed", !.cached = g.cached,
                                !.ret = g.ret, !.err = g.err,
                                !.computed = g.computed]
    /\ UNCHANGED <<FitVars, pf, quad, batch, geo>>

\* page.lines = ...
SetLines ==
    /\ page.pc \in {"new", "accessed", "assigned"}
    /\ \E ls \in PageLines :
          /\ ls # page.lines
          /\ page' = [page EXCEPT !.pc = "assigned", !.lines = ls]
    /\ UNCHANGED <<FitVars, pf, quad, batch, geo>>

NextPage == GetRect \/ SetLines

SpecPage == InitPage /\ [][NextPage]_vars

BBox(lines) ==
    [x0 |-> SetMin({lines[k].x0 : k \in DOMAIN lines}),
     y0 |-> SetMin({lines[k].y0 : k \in DOMAIN lines}),
     x1 |-> SetMax({lines[k].x1 : k \in DOMAIN lines}),
     y1 |-> SetMax({lines[k].y1 : k \in DOMAIN lines})]

\* C17: the first access computes Rect(min x0, min y0, max x1, max y1) over
\* the lines and caches it; every later access returns the cached value
\* without recomputing, whatever was assigned to lines in between; with no
\* lines the access raises, caches nothing, and so does the next one.
C17_LazyRect ==
    [][IF page'.pc = "accessed"
       THEN IF page.cached # <<>>
            THEN /\ page'.cached = page.cached
                 /\ page'.ret = page.cached
                 /\ page'.err = ""
                 /\ ~page'.computed
            ELSE IF page.lines = <<>>
            THEN /\ page'.err # ""
                 /\ page'.ret = <<>>
                 /\ page'.cached = <<>>
            ELSE /\ page'.cached = <<BBox(page.lines)>>
                 /\ page'.ret = page'.cached
                 /\ page'.err = ""
       ELSE page'.cached = page.cached]_vars

\* an access answered from the cache although the lines changed since
C17_Witness ==
    /\ page.pc = "accessed"
    /\ ~page.computed
    /\ page.lines # <<>>
    /\ page.ret = page.cached
    /\ page.cached # <<BBox(page.lines)>>

(***************************************************************************)
(* geometry.Rect: intersect, intersects and empty on two Rects.            *)
(***************************************************************************)
\* Rect.w, Rect.h and Rect.empty
w(r) == r.x1 - r.x0
h(r) == r.y1 - r.y0
empty(r) == w(r) <= 0 \/ h(r) <= 0

Max2(a, b) == IF a >= b THEN a ELSE b
Min2(a, b) == IF a <= b THEN a ELSE b

\* Rect.intersect
intersect(self, other) ==
    MkRect(Max2(self.x0, other.x0), Max2(self.y0, other.y0),
           Min2(self.x1, other.x1), Min2(self.y1, other.y1))

\* Rect.intersects
intersects_Touching(self, other) ==
    /\ self.x0 <= other.x1
    /\ self.x1 >= other.x0
    /\ self.y0 <= other.y1
    /\ self.y1 >= other.y0

intersects(self, other) ==
    /\ self.x0 < other.x1
    /\ self.x1 > other.x0
    /\ self.y0 < other.y1
    /\ self.y1 > other.y0

\* the Rects with x0 <= x1 and y0 <= y1 on the grid
GeoRects ==
    {MkRect(a, b, c, d) : a \in Coords, b \in Coords, c \in Coords, d \in Coords}
WellFormed == {r \in GeoRects : r.x0 <= r.x1 /\ r.y0 <= r.y1}

InitGeo ==
    /\ IdleFit
    /\ pf = IdlePf
    /\ quad = IdleQuad
    /\ batch = IdleBatch
    /\ page = IdlePage
    /\ geo \in {[pc |-> "start", a |-> ra, b |-> rb, hits |-> <<>>, inter |-> <<>>] :
                   ra \in WellFormed, rb \in WellFormed}

\* a.intersects(b) and b.intersects(a)
CallIntersects ==
    /\ geo.pc = "start"
    /\ geo.hits = <<>>
    /\ geo' = [geo EXCEPT !.hits = <<intersects(geo.a, geo.b), intersects(geo.b, geo.a)>>]
    /\ UNCHANGED <<FitVars, pf, quad, batch, page>>

\* a.intersect(b) and b.intersect(a)
CallIntersect ==
    /\ geo.pc = "start"
    /\ geo.inter = <<>>
    /\ geo' = [geo EXCEPT !.inter = <<intersect(geo.a, geo.b), intersect(geo.b, geo.a)>>]
    /\ UNCHANGED <<FitVars, pf, quad, batch, page>>

NextGeo == CallIntersects \/ CallIntersect

SpecGeo == InitGeo /\ [][NextGeo]_vars

GeoDone == geo.pc = "start" /\ geo.hits # <<>> /\ geo.inter # <<>>
Symmetric == geo.hits[1] = geo.hits[2] /\ geo.inter[1] = geo.inter[2]
NonEmptyArea(r) == r.x0 < r.x1 /\ r.y0 < r.y1
InterNonEmpty == ~empty(geo.inter[1])

\* C18 as stated: for any two rects with x0 <= x1 and y0 <= y1, zero-width
\* and zero-height ones included, a.intersects(b) is true exactly when
\* a.intersect(b) is not empty, and both operations are symmetric.
C18_IntersectsIffNonEmpty ==
    GeoDone => (Symmetric /\ (geo.hits[1] <=> InterNonEmpty))

\* C18 amended: the equivalence holds when both rects have x0 < x1 and
\* y0 < y1; both operations are symmetric for all rects with x0 <= x1 and
\* y0 <= y1.
C18_Amended ==
    GeoDone =>
        /\ Symmetric
        /\ (NonEmptyArea(geo.a) /\ NonEmptyArea(geo.b)) => (geo.hits[1] <=> InterNonEmpty)

\* two rects of positive area that only share an edge
C18_Witness ==
    /\ GeoDone
    /\ geo.a = MkRect(0, 0, 1, 2)
    /\ geo.b = MkRect(1, 0, 2, 2)
    /\ geo.hits = <<FALSE, FALSE>>
    /\ geo.inter[1] = MkRect(1, 0, 1, 2)

====
